---- MODULE Spec2Model ----
(***************************************************************************)
(* State-machine model of RateLimitTracker                                 *)
(* (src-tauri/src/proxy/rate_limit.rs): the lockout map, the failure-count *)
(* map, the wall clock, and the operations on them.                        *)
(*                                                                         *)
(* Time.  A SystemTime is an integer number of clock ticks, TicksPerSec    *)
(* ticks to the second, so that Duration::as_secs() really truncates.      *)
(* Strings are TLA+ strings; Option<T> is <<>> (None) or <<v>> (Some(v)).  *)
(***************************************************************************)
EXTENDS Integers, Sequences, FiniteSets, TLC

----------------------------------------------------------------------------
(* Bounds of the model *)

\* clock resolution: ticks per second
TicksPerSec == 2
\* how many ticks the clock may drift past the failure-count expiry span
MaxDrift == 2
\* how many mutating tracker operations one behaviour performs
MaxSteps == 3
\* concurrent callers
MaxThreads == 2

----------------------------------------------------------------------------
(* Program constants *)

FAILURE_COUNT_EXPIRY_SECONDS == 3600

\* the safety buffer of parse_from_error: a hinted wait is at least this long
MinRetrySec == 2
\* set_lockout_until: retry_after_sec when the reset time has already passed
PastLockoutSec == 60
\* QuotaExhausted with an empty ladder
EmptyLadderSec == 7200

----------------------------------------------------------------------------
(* Option, Duration and SystemTime *)

None == <<>>
Some(v) == <<v>>
IsSome(o) == o # <<>>
UnwrapOr(o, d) == IF o = <<>> THEN d ELSE o[1]

\* Duration::from_secs
FromSecs(n) == n * TicksPerSec
\* Duration::as_secs: whole seconds, the fraction dropped
AsSecs(d) == d \div TicksPerSec
\* SystemTime::duration_since: Err (None) when `earlier` is later than self
DurationSince(self, earlier) == IF self >= earlier THEN Some(self - earlier) ELSE None

----------------------------------------------------------------------------
(* Strings *)

Ch(s, i) == SubSeq(s, i, i)
Digits == <<"0", "1", "2", "3", "4", "5", "6", "7", "8", "9">>
IsDigit(c) == \E k \in 1..10 : Digits[k] = c
DigitVal(c) == (CHOOSE k \in 1..10 : Digits[k] = c) - 1
IsSpace(c) == c \in {" ", "\t", "\n", "\r"}

UpperChars == <<"A", "B", "C", "D", "E", "F", "G", "H", "I", "J", "K", "L", "M",
                "N", "O", "P", "Q", "R", "S", "T", "U", "V", "W", "X", "Y", "Z">>
LowerChars == <<"a", "b", "c", "d", "e", "f", "g", "h", "i", "j", "k", "l", "m",
                "n", "o", "p", "q", "r", "s", "t", "u", "v", "w", "x", "y", "z">>
LowerCh(c) ==
    IF \E k \in 1..26 : UpperChars[k] = c
    THEN LowerChars[CHOOSE k \in 1..26 : UpperChars[k] = c]
    ELSE c

\* str::to_lowercase
RECURSIVE ToLowercase(_)
ToLowercase(s) ==
    IF Len(s) = 0 THEN "" ELSE LowerCh(Ch(s, 1)) \o ToLowercase(SubSeq(s, 2, Len(s)))

\* str::contains
Contains(s, p) ==
    \E i \in 1..(Len(s) - Len(p) + 1) : SubSeq(s, i, i + Len(p) - 1) = p

\* str::starts_with, from position i
LitAt(s, i, lit) ==
    /\ i + Len(lit) - 1 <= Len(s)
    /\ SubSeq(s, i, i + Len(lit) - 1) = lit

\* str::trim
RECURSIVE TrimStart(_)
TrimStart(s) ==
    IF Len(s) > 0 /\ IsSpace(Ch(s, 1)) THEN TrimStart(SubSeq(s, 2, Len(s))) ELSE s
RECURSIVE TrimEnd(_)
TrimEnd(s) ==
    IF Len(s) > 0 /\ IsSpace(Ch(s, Len(s))) THEN TrimEnd(SubSeq(s, 1, Len(s) - 1)) ELSE s
Trim(s) == TrimEnd(TrimStart(s))

\* length of the run of ASCII digits of s that starts at position i (regex \d+)
RECURSIVE DigitRun(_, _)
DigitRun(s, i) ==
    IF i <= Len(s) /\ IsDigit(Ch(s, i)) THEN 1 + DigitRun(s, i + 1) ELSE 0

\* length of the run of whitespace of s that starts at position i (regex \s*)
RECURSIVE SpaceRun(_, _)
SpaceRun(s, i) ==
    IF i <= Len(s) /\ IsSpace(Ch(s, i)) THEN 1 + SpaceRun(s, i + 1) ELSE 0

\* the decimal value of the n digits of s from position i
RECURSIVE DecimalValue(_, _, _)
DecimalValue(s, i, n) ==
    IF n = 0 THEN 0
    ELSE 10 * DecimalValue(s, i, n - 1) + DigitVal(Ch(s, i + n - 1))

\* str::parse::<u64>: an optional '+', then digits only
ParseU64(s) ==
    LET from == IF LitAt(s, 1, "+") THEN 2 ELSE 1
        n == DigitRun(s, from)
    IN  IF n > 0 /\ from + n - 1 = Len(s) THEN Some(DecimalValue(s, from, n)) ELSE None

----------------------------------------------------------------------------
(* serde_json::Value.  A body is the raw text together with what             *)
(* serde_json::from_str makes of the trimmed text (None: not JSON).          *)

JStr(s) == [t |-> "str", s |-> s]
JNum(n) == [t |-> "num", n |-> n]
JArr(a) == [t |-> "arr", a |-> a]
JObj(o) == [t |-> "obj", o |-> o]

\* Each step of a chain  json.get(..).and_then(..)  takes the Option the step
\* before it gave and passes None on.
\* Value::get(key)
JGet(o, k) ==
    IF o # None /\ o[1].t = "obj" /\ k \in DOMAIN o[1].o THEN Some(o[1].o[k]) ELSE None
\* Value::as_array, then first
JFirst(o) ==
    IF o # None /\ o[1].t = "arr" /\ Len(o[1].a) > 0 THEN Some(o[1].a[1]) ELSE None
\* Value::as_str
JAsStr(o) == IF o # None /\ o[1].t = "str" THEN Some(o[1].s) ELSE None
\* Value::as_u64
JAsU64(o) == IF o # None /\ o[1].t = "num" /\ o[1].n >= 0 THEN Some(o[1].n) ELSE None

GetError(v) == JGet(v, "error")
GetDetails(v) == JGet(v, "details")
GetReason(v) == JGet(v, "reason")
GetMessage(v) == JGet(v, "message")
GetMetadata(v) == JGet(v, "metadata")
GetQuotaResetDelay(v) == JGet(v, "quotaResetDelay")
GetRetryAfter(v) == JGet(v, "retry_after")

\* the JSON value the parsers look at: only a text that starts with { or [
\* after trimming is handed to serde_json
JsonOf(body) ==
    LET trimmed == Trim(body.raw)
    IN  IF LitAt(trimmed, 1, "{") \/ LitAt(trimmed, 1, "[") THEN body.json ELSE None

----------------------------------------------------------------------------
(* parse_rate_limit_reason *)

MatchReasonStr(reason_str) ==
    CASE reason_str = "QUOTA_EXHAUSTED" -> "QuotaExhausted"
      [] reason_str = "RATE_LIMIT_EXCEEDED" -> "RateLimitExceeded"
      [] reason_str = "MODEL_CAPACITY_EXHAUSTED" -> "ModelCapacityExhausted"
      [] OTHER -> "Unknown"

\* text rules that look for a quota first
TextReasonQuotaFirst(body_lower) ==
    IF Contains(body_lower, "exhausted") \/ Contains(body_lower, "quota")
    THEN "QuotaExhausted"
    ELSE IF \/ Contains(body_lower, "per minute")
            \/ Contains(body_lower, "rate limit")
            \/ Contains(body_lower, "too many requests")
    THEN "RateLimitExceeded"
    ELSE "Unknown"

TextReason(body_lower) ==
    IF \/ Contains(body_lower, "per minute")
       \/ Contains(body_lower, "rate limit")
       \/ Contains(body_lower, "too many requests")
    THEN "RateLimitExceeded"
    ELSE IF Contains(body_lower, "exhausted") \/ Contains(body_lower, "quota")
    THEN "QuotaExhausted"
    ELSE "Unknown"

\* a classification that goes on to the message when the reason is not known
parse_rate_limit_reason_goes_on(body) ==
    LET json == JsonOf(body)
        reason_str == JAsStr(GetReason(JFirst(GetDetails(GetError(json)))))
        msg == JAsStr(GetMessage(GetError(json)))
        msg_lower == ToLowercase(msg[1])
    IN  IF IsSome(reason_str) /\ MatchReasonStr(reason_str[1]) # "Unknown"
        THEN MatchReasonStr(reason_str[1])
        ELSE IF /\ IsSome(msg)
                /\ (Contains(msg_lower, "per minute") \/ Contains(msg_lower, "rate limit"))
        THEN "RateLimitExceeded"
        ELSE TextReason(ToLowercase(body.raw))

parse_rate_limit_reason(body) ==
    LET json == JsonOf(body)
        reason_str == JAsStr(GetReason(JFirst(GetDetails(GetError(json)))))
        msg == JAsStr(GetMessage(GetError(json)))
        msg_lower == ToLowercase(msg[1])
    IN  IF IsSome(reason_str) THEN MatchReasonStr(reason_str[1])
        ELSE IF /\ IsSome(msg)
                /\ (Contains(msg_lower, "per minute") \/ Contains(msg_lower, "rate limit"))
        THEN "RateLimitExceeded"
        ELSE TextReason(ToLowercase(body.raw))

----------------------------------------------------------------------------
(* parse_duration_string: the regex                                          *)
(*   (?:(\d+)h)?(?:(\d+)m)?(?:(\d+(?:\.\d+)?)s)?(?:(\d+(?:\.\d+)?)ms)?        *)
(* Every group is optional, so the leftmost match starts at the first        *)
(* character; each group is greedy: it is taken whenever it can match where  *)
(* the previous one stopped.                                                 *)

NoGroup(p) == [hit |-> FALSE, int |-> 0, frac |-> FALSE, next |-> p]

\* (?:(\d+)unit)? at position p
IntGroup(s, p, unit) ==
    LET n == DigitRun(s, p)
    IN  IF n > 0 /\ LitAt(s, p + n, unit)
        THEN [hit |-> TRUE, int |-> DecimalValue(s, p, n), frac |-> FALSE,
              next |-> p + n + Len(unit)]
        ELSE NoGroup(p)

\* (?:(\d+(?:\.\d+)?)unit)? at position p; frac: the fraction is not zero
FloatGroup(s, p, unit) ==
    LET n == DigitRun(s, p)
        f == IF n > 0 /\ LitAt(s, p + n, ".") THEN DigitRun(s, p + n + 1) ELSE 0
    IN  IF n > 0 /\ f > 0 /\ LitAt(s, p + n + 1 + f, unit)
        THEN [hit |-> TRUE, int |-> DecimalValue(s, p, n),
              frac |-> DecimalValue(s, p + n + 1, f) # 0,
              next |-> p + n + 1 + f + Len(unit)]
        ELSE IF n > 0 /\ LitAt(s, p + n, unit)
        THEN [hit |-> TRUE, int |-> DecimalValue(s, p, n), frac |-> FALSE,
              next |-> p + n + Len(unit)]
        ELSE NoGroup(p)

\* f64::ceil of int.frac, and of int.frac / 1000.0
Ceil(g) == g.int + (IF g.frac THEN 1 ELSE 0)
CeilMillis(g) == (g.int \div 1000) + (IF g.int % 1000 # 0 \/ g.frac THEN 1 ELSE 0)

parse_duration_string(s) ==
    LET hours == IntGroup(s, 1, "h")
        minutes == IntGroup(s, hours.next, "m")
        seconds == FloatGroup(s, minutes.next, "s")
        milliseconds == FloatGroup(s, seconds.next, "ms")
        total_seconds ==
            hours.int * 3600 + minutes.int * 60 + Ceil(seconds) + CeilMillis(milliseconds)
    IN  IF total_seconds = 0 THEN None ELSE Some(total_seconds)

----------------------------------------------------------------------------
(* parse_retry_time_from_body *)

\* the leftmost of the positions where a pattern matches, 0 when there is none
FirstMatch(positions) ==
    IF positions = {} THEN 0
    ELSE CHOOSE i \in positions : \A j \in positions : i <= j

\* (\d+)unit at position p
NumberThen(s, p, unit) == DigitRun(s, p) > 0 /\ LitAt(s, p + DigitRun(s, p), unit)
NumberAt(s, p) == DecimalValue(s, p, DigitRun(s, p))

\* (?i)try again in (\d+)m\s*(\d+)s        (on the lowercased text)
MinSecLit == "try again in "
MinSecSecondsPos(s, i) ==
    LET p == i + Len(MinSecLit)
        q == p + DigitRun(s, p) + 1
    IN  q + SpaceRun(s, q)
MinSecAt(s, i) ==
    /\ LitAt(s, i, MinSecLit)
    /\ NumberThen(s, i + Len(MinSecLit), "m")
    /\ NumberThen(s, MinSecSecondsPos(s, i), "s")

\* (?i)(?:try again in|backoff for|wait)\s*(\d+)s
WaitLits == <<"try again in", "backoff for", "wait">>
WaitLitAt(s, i) == CHOOSE k \in 1..3 : LitAt(s, i, WaitLits[k])
WaitNumberPos(s, i) ==
    LET p == i + Len(WaitLits[WaitLitAt(s, i)]) IN p + SpaceRun(s, p)
WaitAt(s, i) ==
    /\ \E k \in 1..3 : LitAt(s, i, WaitLits[k])
    /\ NumberThen(s, WaitNumberPos(s, i), "s")

\* (?i)quota will reset in (\d+) second
ResetLit == "quota will reset in "
ResetAt(s, i) == LitAt(s, i, ResetLit) /\ NumberThen(s, i + Len(ResetLit), " second")

\* (?i)retry after (\d+) second
RetryLit == "retry after "
RetryAt(s, i) == LitAt(s, i, RetryLit) /\ NumberThen(s, i + Len(RetryLit), " second")

\* \(wait (\d+)s\)                          (case-sensitive)
ParenLit == "(wait "
ParenAt(s, i) == LitAt(s, i, ParenLit) /\ NumberThen(s, i + Len(ParenLit), "s)")

RegexRetryTime(raw) ==
    LET low == ToLowercase(raw)
        i1 == FirstMatch({i \in 1..Len(low) : MinSecAt(low, i)})
        i2 == FirstMatch({i \in 1..Len(low) : WaitAt(low, i)})
        i3 == FirstMatch({i \in 1..Len(low) : ResetAt(low, i)})
        i4 == FirstMatch({i \in 1..Len(low) : RetryAt(low, i)})
        i5 == FirstMatch({i \in 1..Len(raw) : ParenAt(raw, i)})
    IN  IF i1 > 0
        THEN Some(NumberAt(low, i1 + Len(MinSecLit)) * 60
                  + NumberAt(low, MinSecSecondsPos(low, i1)))
        ELSE IF i2 > 0 THEN Some(NumberAt(low, WaitNumberPos(low, i2)))
        ELSE IF i3 > 0 THEN Some(NumberAt(low, i3 + Len(ResetLit)))
        ELSE IF i4 > 0 THEN Some(NumberAt(low, i4 + Len(RetryLit)))
        ELSE IF i5 > 0 THEN Some(NumberAt(raw, i5 + Len(ParenLit)))
        ELSE None

parse_retry_time_from_body(body) ==
    LET json == JsonOf(body)
        delay_str ==
            JAsStr(GetQuotaResetDelay(GetMetadata(JFirst(GetDetails(GetError(json))))))
        delay == IF IsSome(delay_str) THEN parse_duration_string(delay_str[1]) ELSE None
        retry == JAsU64(GetRetryAfter(GetError(json)))
    IN  IF IsSome(delay) THEN delay
        ELSE IF IsSome(retry) THEN retry
        ELSE RegexRetryTime(body.raw)

----------------------------------------------------------------------------
(* Inputs *)

Reasons ==
    {"QuotaExhausted", "RateLimitExceeded", "ModelCapacityExhausted", "ServerError",
     "Unknown"}

ReasonOnly(r) == JObj([error |-> JObj([details |-> JArr(<<JObj([reason |-> JStr(r)])>>)])])
ReasonAndDelay(r, d) ==
    JObj([error |-> JObj([details |->
        JArr(<<JObj([reason |-> JStr(r),
                     metadata |-> JObj([quotaResetDelay |-> JStr(d)])])>>)])])

\* the response bodies, by name
BodyNames == {"quota", "rate", "capacity", "empty", "unavailable", "delay", "retry1"}
Body(name) ==
    CASE name = "quota" ->
            [raw |-> "{\"error\":{\"details\":[{\"reason\":\"QUOTA_EXHAUSTED\"}]}}",
             json |-> Some(ReasonOnly("QUOTA_EXHAUSTED"))]
      [] name = "rate" ->
            [raw |-> "{\"error\":{\"details\":[{\"reason\":\"RATE_LIMIT_EXCEEDED\"}]}}",
             json |-> Some(ReasonOnly("RATE_LIMIT_EXCEEDED"))]
      [] name = "capacity" ->
            [raw |-> "{\"error\":{\"details\":[{\"reason\":\"MODEL_CAPACITY_EXHAUSTED\"}]}}",
             json |-> Some(ReasonOnly("MODEL_CAPACITY_EXHAUSTED"))]
      [] name = "empty" -> [raw |-> "", json |-> None]
      [] name = "unavailable" -> [raw |-> "Service Unavailable", json |-> None]
      [] name = "delay" ->
            [raw |-> "{\"error\":{\"details\":[{\"reason\":\"QUOTA_EXHAUSTED\",\"metadata\":{\"quotaResetDelay\":\"2.5s\"}}]}}",
             json |-> Some(ReasonAndDelay("QUOTA_EXHAUSTED", "2.5s"))]
      [] name = "retry1" -> [raw |-> "Quota limit hit. Retry After 1 Seconds", json |-> None]

\* what the two parsers make of each body
ReasonOfBody == [b \in BodyNames |-> parse_rate_limit_reason(Body(b))]
RetryTimeOfBody == [b \in BodyNames |-> parse_retry_time_from_body(Body(b))]

\* error responses: status, Retry-After header, body
Response(status, header, body) == [status |-> status, header |-> header, body |-> body]
Quota429 == Response(429, None, "quota")
Rate429 == Response(429, None, "rate")
Capacity429 == Response(429, None, "capacity")
Unknown429 == Response(429, None, "empty")
Unavailable503 == Response(503, None, "unavailable")
\* a backoff ladder (backoff_steps) a caller passes
Ladder == <<60, 300>>

\* RFC 3339 texts handed to set_lockout_until_iso, with what
\* chrono::DateTime::parse_from_rfc3339(..).timestamp() makes of each
ParseFromRfc3339(text) ==
    CASE text = "1970-01-01T00:00:02.5Z" -> Some(2)
      [] OTHER -> None

\* a call of one of the tracker's operations, with its arguments
NoCall ==
    [op |-> "new", account |-> "", model |-> None, status |-> 0, header |-> None,
     body |-> "", schedule |-> << >>, reset_time |-> 0, reason |-> "", text |-> ""]

ParseCalls(accounts, responses, models, schedules) ==
    {[NoCall EXCEPT !.op = "parse_from_error", !.account = a, !.status = r.status,
                    !.header = r.header, !.body = r.body, !.model = m, !.schedule = s] :
        a \in accounts, r \in responses, m \in models, s \in schedules}
UntilCalls(accounts, times, reasons, models) ==
    {[NoCall EXCEPT !.op = "set_lockout_until", !.account = a, !.reset_time = t,
                    !.reason = r, !.model = m] :
        a \in accounts, t \in times, r \in reasons, m \in models}
IsoCalls(accounts, texts, reasons, models) ==
    {[NoCall EXCEPT !.op = "set_lockout_until_iso", !.account = a, !.text = t,
                    !.reason = r, !.model = m] :
        a \in accounts, t \in texts, r \in reasons, m \in models}
AccountCalls(op, accounts) == {[NoCall EXCEPT !.op = op, !.account = a] : a \in accounts}
PlainCall(op) == {[NoCall EXCEPT !.op = op]}

\* The call mixes.  A behaviour draws all its calls from one of them.
Workloads ==
    {"ladder", "storm", "header", "bodyhint", "keys", "reasons", "until", "iso",
     "sweep", "frames", "rejects"}
Workload(w) ==
    CASE w = "ladder" ->
            \* one account climbing the backoff ladder, with successes in between
            ParseCalls({"a"}, {Quota429}, {None}, {<< >>, <<60>>, Ladder})
            \cup ParseCalls({"a"}, {Rate429, Unavailable503}, {None}, {Ladder})
            \cup ParseCalls({"a"}, {Quota429}, {Some("m")}, {Ladder})
            \cup AccountCalls("mark_success", {"a"})
            \cup AccountCalls("clear", {"a"})
      [] w = "storm" ->
            \* backend failures around a quota error
            ParseCalls({"a"},
                       [status : {500, 503, 529, 404}, header : {None},
                        body : {"unavailable"}],
                       {None}, {Ladder})
            \cup ParseCalls({"a"}, {Response(503, None, "quota"),
                                    Response(503, Some("7"), "unavailable"),
                                    Response(500, None, "retry1")}, {None}, {Ladder})
            \cup ParseCalls({"a"}, {Quota429, Capacity429}, {None}, {Ladder})
      [] w = "header" ->
            \* responses with a Retry-After header
            ParseCalls({"a"},
                       [status : {429}, header : {Some("0"), Some("1"), Some("7")},
                        body : {"quota", "rate", "empty"}],
                       {None}, {Ladder})
            \cup ParseCalls({"a"}, {Quota429}, {None}, {Ladder})
      [] w = "bodyhint" ->
            \* responses whose body names the wait
            ParseCalls({"a"},
                       [status : {429}, header : {None, Some("soon")},
                        body : {"delay", "retry1"}],
                       {None}, {Ladder})
            \cup ParseCalls({"a"}, {Response(404, Some("1"), "unavailable"),
                                    Response(429, Some("0"), "capacity"),
                                    Capacity429}, {None}, {Ladder})
            \cup ParseCalls({"a"}, {Quota429}, {None, Some("m")}, {Ladder})
      [] w = "keys" ->
            \* account-scoped and model-scoped records of one account
            ParseCalls({"a"}, {Quota429, Rate429, Unavailable503},
                       {None, Some(""), Some("m")}, {Ladder})
      [] w = "reasons" ->
            \* every reason reported with a model
            ParseCalls({"a"}, {Quota429}, {Some("m"), Some("n")}, {Ladder})
            \cup ParseCalls({"a"}, {Rate429, Unknown429, Capacity429, Unavailable503},
                            {Some("m")}, {Ladder})
            \cup ParseCalls({"a"}, {Response(429, Some("7"), "quota")}, {Some("n")},
                            {Ladder})
      [] w = "until" ->
            \* lockouts set to an instant
            UntilCalls({"a"}, {1, FromSecs(2) + 1}, {"QuotaExhausted", "RateLimitExceeded"},
                       {None, Some("m")})
            \cup ParseCalls({"a"}, {Quota429}, {None}, {Ladder})
      [] w = "iso" ->
            \* lockouts set to an RFC 3339 instant
            IsoCalls({"a"}, {"1970-01-01T00:00:02.5Z", "tomorrow"}, {"QuotaExhausted"},
                     {None, Some("m")})
            \cup UntilCalls({"a"}, {FromSecs(2) + 1}, {"RateLimitExceeded"}, {Some("")})
            \cup ParseCalls({"a"}, {Rate429}, {None}, {Ladder})
            \cup AccountCalls("mark_success", {"a"})
      [] w = "sweep" ->
            \* two accounts, short and long lockouts, and the operations that remove them
            ParseCalls({"a", "b"}, {Quota429}, {None, Some("m")}, {Ladder})
            \cup UntilCalls({"a", "b"}, {1}, {"RateLimitExceeded"}, {None})
            \cup UntilCalls({"a"}, {1}, {"QuotaExhausted"}, {Some("m")})
            \cup AccountCalls("clear", {"a"})
            \cup PlainCall("cleanup_expired")
            \cup PlainCall("clear_all")
      [] w = "frames" ->
            \* what a success or a clear of one account leaves alone
            ParseCalls({"a"}, {Quota429}, {None, Some("m")}, {Ladder})
            \cup ParseCalls({"b"}, {Quota429}, {None}, {Ladder})
            \cup UntilCalls({"a"}, {1}, {"RateLimitExceeded"}, {None})
            \cup AccountCalls("mark_success", {"a", "b"})
            \cup AccountCalls("clear", {"a", "b"})
      [] w = "rejects" ->
            \* statuses the tracker does not handle
            ParseCalls({"a"},
                       [status : {200, 400, 502}, header : {None, Some("7")},
                        body : {"quota"}],
                       {None}, {Ladder})
            \cup ParseCalls({"a"}, {Response(401, None, "retry1")}, {None, Some("m")},
                            {Ladder})
            \cup ParseCalls({"a"}, {Quota429}, {None, Some("m")}, {Ladder})

\* the calls of each workload
CallsOf == [w \in Workloads |-> Workload(w)]

Accounts == {"a", "b"}
\* the models a query may name
QueryModels == {None, Some(""), Some("m"), Some("n")}

\* the clock moves forward by one tick or by the failure-count expiry span, and
\* is observed within MaxDrift ticks of a whole number of such spans
ClockSteps == {1, FromSecs(FAILURE_COUNT_EXPIRY_SECONDS)}
MaxClock == FromSecs(FAILURE_COUNT_EXPIRY_SECONDS) + MaxDrift

----------------------------------------------------------------------------
(* State *)

VARIABLES
    limits,          \* DashMap<String, RateLimitInfo>
    failure_counts,  \* DashMap<String, (u32, SystemTime)>
    now,             \* SystemTime::now()
    workload,        \* the call mix of this behaviour
    steps,           \* calls made so far
    run,             \* per account: the current run of hint-less QuotaExhausted
                     \* reports that began with no failure count
    last,            \* the last call: its arguments, its result, when it was made,
                     \* and the two maps as they were when it was made
    threads,         \* concurrent callers: where each is in its call, what it has
                     \* read, and who holds the lock of each failure-count entry
    parse            \* a text handed to one of the parsers, and what it returned

vars == <<limits, failure_counts, now, workload, steps, run, last, threads, parse>>

RateLimitInfo(reset_time, retry_after_sec, detected_at, reason, model) ==
    [reset_time |-> reset_time, retry_after_sec |-> retry_after_sec,
     detected_at |-> detected_at, reason |-> reason, model |-> model]

\* DashMap::insert, DashMap::remove, DashMap::retain
Insert(map, k, v) == [x \in DOMAIN map \cup {k} |-> IF x = k THEN v ELSE map[x]]
Remove(map, k) == [x \in DOMAIN map \ {k} |-> map[x]]
Retain(map, keep) == [x \in keep |-> map[x]]
EmptyMap == [x \in {} |-> 0]

\* the record of a call: info, flag and count hold what it returned
Returned(call, info, flag, count) ==
    [call |-> call, info |-> info, flag |-> flag, count |-> count, at |-> now,
     limits |-> limits, failure_counts |-> failure_counts]

NoRuns ==
    [a \in Accounts |-> [n |-> 0, at |-> 0, stormy |-> FALSE, swept |-> FALSE,
                         since |-> "new"]]
NoLast ==
    [call |-> NoCall, info |-> None, flag |-> FALSE, count |-> 0, at |-> 0,
     limits |-> EmptyMap, failure_counts |-> EmptyMap]
\* no concurrent callers
NoThreads ==
    [pc |-> << >>, call |-> << >>, now |-> << >>, count |-> << >>, info |-> << >>,
     lock |-> [a \in Accounts |-> 0], c0 |-> 0]

\* no text handed to a parser
NoParse == [input |-> [kind |-> "", parts |-> << >>], fn |-> "", out |-> None]

Init ==
    /\ limits = EmptyMap
    /\ failure_counts = EmptyMap
    /\ now = 0
    /\ workload \in Workloads
    /\ steps = 0
    /\ run = NoRuns
    /\ last = NoLast
    /\ threads = NoThreads
    /\ parse = NoParse

----------------------------------------------------------------------------
(* Queries *)

get_limit_key(account_id, model) ==
    IF model # None /\ model[1] # "" THEN account_id \o ":" \o model[1] ELSE account_id

\* info.reset_time.duration_since(now).unwrap_or(0).as_secs()
SecsUntil(reset_time, t) == AsSecs(UnwrapOr(DurationSince(reset_time, t), 0))

\* a lookup that tries the model's entry before the account's
RemainingWaitModelFirst(lm, t, account_id, model) ==
    IF /\ model # None
       /\ get_limit_key(account_id, model) \in DOMAIN lm
       /\ lm[get_limit_key(account_id, model)].reset_time > t
    THEN SecsUntil(lm[get_limit_key(account_id, model)].reset_time, t)
    ELSE IF account_id \in DOMAIN lm /\ lm[account_id].reset_time > t
    THEN SecsUntil(lm[account_id].reset_time, t)
    ELSE 0

\* a lookup that takes a stored record as live until it is removed
RemainingWaitStored(lm, t, account_id, model) ==
    IF account_id \in DOMAIN lm
    THEN lm[account_id].retry_after_sec
    ELSE IF model # None /\ get_limit_key(account_id, model) \in DOMAIN lm
    THEN lm[get_limit_key(account_id, model)].retry_after_sec
    ELSE 0

\* get_remaining_wait on the lockout map lm at instant t
RemainingWait(lm, t, account_id, model) ==
    IF account_id \in DOMAIN lm /\ lm[account_id].reset_time > t
    THEN SecsUntil(lm[account_id].reset_time, t)
    ELSE IF /\ model # None
            /\ get_limit_key(account_id, model) \in DOMAIN lm
            /\ lm[get_limit_key(account_id, model)].reset_time > t
    THEN SecsUntil(lm[get_limit_key(account_id, model)].reset_time, t)
    ELSE 0

get_remaining_wait(account_id, model) == RemainingWait(limits, now, account_id, model)

IsRateLimited(lm, t, account_id, model) == RemainingWait(lm, t, account_id, model) > 0
is_rate_limited(account_id, model) == IsRateLimited(limits, now, account_id, model)

----------------------------------------------------------------------------
(* parse_from_error *)

\* a status check that takes every 5xx
AcceptedStatusAny5xx(status) == status = 429 \/ status = 404 \/ status \div 100 = 5

AcceptedStatus(status) ==
    ~(status # 429 /\ status # 500 /\ status # 503 /\ status # 529 /\ status # 404)

\* step 1: the reason
ReasonOf(status, body) == IF status = 429 THEN ReasonOfBody[body] ELSE "ServerError"

\* steps 2 and 3: the wait the response asks for, header first
RetryAfterOf(retry_after_header, body) ==
    LET seconds == IF IsSome(retry_after_header) THEN ParseU64(retry_after_header[1])
                   ELSE None
    IN  IF IsSome(seconds) THEN seconds ELSE RetryTimeOfBody[body]

\* the failure-count entry of account_id after the increment at instant t
BumpedCount(counts, account_id, t) ==
    LET entry == IF account_id \in DOMAIN counts THEN counts[account_id] ELSE <<0, t>>
        elapsed == AsSecs(UnwrapOr(DurationSince(t, entry[2]), 0))
        fresh == IF elapsed > FAILURE_COUNT_EXPIRY_SECONDS THEN <<0, t>> ELSE entry
    IN  <<fresh[1] + 1, t>>

\* a step 4 that counts backend failures too
CountsAfterAnyReason(counts, account_id, t, reason, retry_after_sec) ==
    IF retry_after_sec = None
    THEN Insert(counts, account_id, BumpedCount(counts, account_id, t))
    ELSE counts

\* a step 4 that counts quota errors only
CountsAfterQuotaOnly(counts, account_id, t, reason, retry_after_sec) ==
    IF retry_after_sec = None /\ reason = "QuotaExhausted"
    THEN Insert(counts, account_id, BumpedCount(counts, account_id, t))
    ELSE counts

\* the failure-count map after step 4
CountsAfter(counts, account_id, t, reason, retry_after_sec) ==
    IF retry_after_sec = None /\ reason # "ServerError"
    THEN Insert(counts, account_id, BumpedCount(counts, account_id, t))
    ELSE counts

\* the failure count step 4 hands to the policy
FailureCountOf(counts, account_id, t, reason) ==
    IF reason # "ServerError" THEN BumpedCount(counts, account_id, t)[1] ELSE 1

\* a ladder that starts over past its last step
QuotaLockoutRestart(failure_count, backoff_steps) ==
    LET index == IF failure_count >= 1 THEN failure_count - 1 ELSE 0
    IN  IF index < Len(backoff_steps) THEN backoff_steps[index + 1]
        ELSE IF Len(backoff_steps) > 0 THEN backoff_steps[1]
        ELSE EmptyLadderSec

QuotaLockout(failure_count, backoff_steps) ==
    LET index == IF failure_count >= 1 THEN failure_count - 1 ELSE 0
    IN  IF index < Len(backoff_steps) THEN backoff_steps[index + 1]
        ELSE IF Len(backoff_steps) > 0 THEN backoff_steps[Len(backoff_steps)]
        ELSE EmptyLadderSec

\* a table whose ModelCapacityExhausted lockout keeps doubling
DefaultLockoutDoubling(reason, status, failure_count, backoff_steps) ==
    CASE reason = "QuotaExhausted" -> QuotaLockout(failure_count, backoff_steps)
      [] reason = "RateLimitExceeded" -> 5
      [] reason = "ModelCapacityExhausted" ->
            (CASE failure_count = 1 -> 5 [] failure_count = 2 -> 10 [] OTHER -> 20)
      [] reason = "ServerError" -> (IF status = 404 THEN 5 ELSE 8)
      [] reason = "Unknown" -> 60

\* the lockout when the response names no wait
DefaultLockout(reason, status, failure_count, backoff_steps) ==
    CASE reason = "QuotaExhausted" -> QuotaLockout(failure_count, backoff_steps)
      [] reason = "RateLimitExceeded" -> 5
      [] reason = "ModelCapacityExhausted" ->
            (CASE failure_count = 1 -> 5 [] failure_count = 2 -> 10 [] OTHER -> 15)
      [] reason = "ServerError" -> (IF status = 404 THEN 5 ELSE 8)
      [] reason = "Unknown" -> 60

\* a step 4 without the two-second floor
RetrySecNoFloor(retry_after_sec, reason, status, failure_count, backoff_steps) ==
    IF IsSome(retry_after_sec)
    THEN retry_after_sec[1]
    ELSE DefaultLockout(reason, status, failure_count, backoff_steps)

\* step 4: retry_sec
RetrySec(retry_after_sec, reason, status, failure_count, backoff_steps) ==
    IF IsSome(retry_after_sec)
    THEN (IF retry_after_sec[1] < MinRetrySec THEN MinRetrySec ELSE retry_after_sec[1])
    ELSE DefaultLockout(reason, status, failure_count, backoff_steps)

\* a key rule that scopes every reason to the model
StorageKeyAnyReason(account_id, reason, model) == get_limit_key(account_id, model)

\* the key the record is stored under
StorageKey(account_id, reason, model) ==
    LET use_model_key == reason = "QuotaExhausted" /\ IsSome(model)
    IN  IF use_model_key THEN get_limit_key(account_id, model) ELSE account_id

\* one more call, and the clock does not move while it runs
Step ==
    /\ steps < MaxSteps
    /\ steps' = steps + 1
    /\ UNCHANGED <<now, workload, threads, parse>>

\* What a response says to someone who reads it: the reason a 429 body gives, and
\* the wait the header or the body names.
SaidReason(body) ==
    CASE body \in {"quota", "delay", "retry1"} -> "QuotaExhausted"
      [] body = "rate" -> "RateLimitExceeded"
      [] body = "capacity" -> "ModelCapacityExhausted"
      [] OTHER -> "Unknown"
SaidWait(header, body) ==
    CASE header = Some("0") -> Some(0)
      [] header = Some("1") -> Some(1)
      [] header = Some("7") -> Some(7)
      [] body = "delay" -> Some(3)
      [] body = "retry1" -> Some(1)
      [] OTHER -> None

IsParse(c) == c.op = "parse_from_error"
ServerStatus(c) == c.status \in {500, 503, 529, 404}
\* a hint-less QuotaExhausted report
QuotaCall(c) ==
    /\ IsParse(c)
    /\ c.status = 429
    /\ SaidReason(c.body) = "QuotaExhausted"
    /\ SaidWait(c.header, c.body) = None

\* the run of hint-less QuotaExhausted reports on c.account, after report c:
\* n its length (0: no run), at the time of its last report, stormy whether
\* backend failures were reported meanwhile, swept whether an operation that
\* removes or replaces lockouts was called on the account meanwhile, since what the account's last
\* report or success was ("new": none yet, "mark": a mark_success, "success": a
\* report that came next after a mark_success, "used": any other report)
RunAfter(c) ==
    LET s == [run[c.account] EXCEPT !.since = IF @ = "mark" THEN "success" ELSE "used"]
    IN  IF QuotaCall(c)
        THEN IF s.n = 0
             THEN (IF c.account \in DOMAIN failure_counts THEN s
                   ELSE [s EXCEPT !.n = 1, !.at = now])
             ELSE IF now - s.at > FromSecs(3600)
             THEN [s EXCEPT !.n = 0]
             ELSE [s EXCEPT !.n = s.n + 1, !.at = now]
        ELSE IF ServerStatus(c) THEN [s EXCEPT !.stormy = TRUE]
        ELSE [s EXCEPT !.n = 0]

\* the runs after an operation that removes or replaces lockouts of accounts
Swept(accounts) ==
    [a \in Accounts |-> IF a \in accounts THEN [run[a] EXCEPT !.swept = TRUE] ELSE run[a]]

\* a report that leaves a record in place when it expires later than the new one
parse_from_error_keeps_later(c) ==
    LET account_id == c.account
        reason == ReasonOf(c.status, c.body)
        retry_after_sec == RetryAfterOf(c.header, c.body)
        failure_count == FailureCountOf(failure_counts, account_id, now, reason)
        retry_sec == RetrySec(retry_after_sec, reason, c.status, failure_count, c.schedule)
        info == RateLimitInfo(now + FromSecs(retry_sec), retry_sec, now, reason, c.model)
        key == StorageKey(account_id, reason, c.model)
    IN  /\ c.op = "parse_from_error"
        /\ Step
        /\ IF ~AcceptedStatus(c.status)
           THEN /\ last' = Returned(c, None, FALSE, 0)
                /\ UNCHANGED <<limits, failure_counts>>
           ELSE /\ failure_counts' =
                       CountsAfter(failure_counts, account_id, now, reason, retry_after_sec)
                /\ limits' = IF key \in DOMAIN limits
                                 /\ limits[key].reset_time > info.reset_time
                              THEN limits ELSE Insert(limits, key, info)
                /\ last' = Returned(c, Some(info), FALSE, 0)
        /\ run' = [run EXCEPT ![account_id] = RunAfter(c)]

parse_from_error(c) ==
    LET account_id == c.account
        reason == ReasonOf(c.status, c.body)
        retry_after_sec == RetryAfterOf(c.header, c.body)
        failure_count == FailureCountOf(failure_counts, account_id, now, reason)
        retry_sec == RetrySec(retry_after_sec, reason, c.status, failure_count, c.schedule)
        info == RateLimitInfo(now + FromSecs(retry_sec), retry_sec, now, reason, c.model)
    IN  /\ c.op = "parse_from_error"
        /\ Step
        /\ IF ~AcceptedStatus(c.status)
           THEN /\ last' = Returned(c, None, FALSE, 0)
                /\ UNCHANGED <<limits, failure_counts>>
           ELSE /\ failure_counts' =
                       CountsAfter(failure_counts, account_id, now, reason, retry_after_sec)
                /\ limits' = Insert(limits, StorageKey(account_id, reason, c.model), info)
                /\ last' = Returned(c, Some(info), FALSE, 0)
        /\ run' = [run EXCEPT ![account_id] = RunAfter(c)]

----------------------------------------------------------------------------
(* The other operations *)

\* a success that keeps the failure count
mark_success_keeps_count(c) ==
    /\ c.op = "mark_success"
    /\ Step
    /\ limits' = Remove(limits, c.account)
    /\ run' = [run EXCEPT ![c.account] =
                   [n |-> 0, at |-> 0, stormy |-> FALSE, swept |-> FALSE, since |-> "mark"]]
    /\ last' = Returned(c, None, FALSE, 0)
    /\ UNCHANGED failure_counts

mark_success(c) ==
    /\ c.op = "mark_success"
    /\ Step
    /\ failure_counts' = Remove(failure_counts, c.account)
    /\ limits' = Remove(limits, c.account)
    /\ run' = [run EXCEPT ![c.account] =
                   [n |-> 0, at |-> 0, stormy |-> FALSE, swept |-> FALSE, since |-> "mark"]]
    /\ last' = Returned(c, None, FALSE, 0)

\* a set_lockout_until that picks its key as parse_from_error does
LockedUntilByReason(account_id, reset_time, reason, model) ==
    LET elapsed == DurationSince(reset_time, now)
        retry_sec == IF IsSome(elapsed) THEN AsSecs(elapsed[1]) ELSE PastLockoutSec
        info == RateLimitInfo(reset_time, retry_sec, now, reason, model)
    IN  Insert(limits, StorageKey(account_id, reason, model), info)

\* set_lockout_until: the lockout map afterwards
LockedUntil(account_id, reset_time, reason, model) ==
    LET elapsed == DurationSince(reset_time, now)
        retry_sec == IF IsSome(elapsed) THEN AsSecs(elapsed[1]) ELSE PastLockoutSec
        info == RateLimitInfo(reset_time, retry_sec, now, reason, model)
        key == get_limit_key(account_id, model)
    IN  Insert(limits, key, info)

set_lockout_until(c) ==
    /\ c.op = "set_lockout_until"
    /\ Step
    /\ limits' = LockedUntil(c.account, c.reset_time, c.reason, c.model)
    /\ last' = Returned(c, None, FALSE, 0)
    /\ run' = Swept({c.account})
    /\ UNCHANGED failure_counts

set_lockout_until_iso(c) ==
    LET dt == ParseFromRfc3339(c.text)
    IN  /\ c.op = "set_lockout_until_iso"
        /\ Step
        /\ IF IsSome(dt)
           THEN /\ limits' = LockedUntil(c.account, FromSecs(dt[1]), c.reason, c.model)
                /\ last' = Returned(c, None, TRUE, 0)
                /\ run' = Swept({c.account})
           ELSE /\ limits' = limits
                /\ last' = Returned(c, None, FALSE, 0)
                /\ run' = run
        /\ UNCHANGED failure_counts

\* a cleanup that keeps the records expiring at this very instant
cleanup_expired_strict(c) ==
    LET Live(v) == ~(v.reset_time < now)
        count == Cardinality({k \in DOMAIN limits : ~Live(limits[k])})
    IN  /\ c.op = "cleanup_expired"
        /\ Step
        /\ limits' = Retain(limits, {k \in DOMAIN limits : Live(limits[k])})
        /\ last' = Returned(c, None, FALSE, count)
        /\ run' = Swept(Accounts)
        /\ UNCHANGED failure_counts

cleanup_expired(c) ==
    LET Live(v) == ~(v.reset_time <= now)
        count == Cardinality({k \in DOMAIN limits : ~Live(limits[k])})
    IN  /\ c.op = "cleanup_expired"
        /\ Step
        /\ limits' = Retain(limits, {k \in DOMAIN limits : Live(limits[k])})
        /\ last' = Returned(c, None, FALSE, count)
        /\ run' = Swept(Accounts)
        /\ UNCHANGED failure_counts

\* a clear that takes the account's model-scoped records along
clear_with_models(c) ==
    /\ c.op = "clear"
    /\ Step
    /\ limits' = [k \in {x \in DOMAIN limits :
                           x # c.account /\ \A m \in {"m", "n"} : x # c.account \o ":" \o m}
                  |-> limits[k]]
    /\ last' = Returned(c, None, c.account \in DOMAIN limits, 0)
    /\ run' = Swept({c.account})
    /\ UNCHANGED failure_counts

clear(c) ==
    /\ c.op = "clear"
    /\ Step
    /\ limits' = Remove(limits, c.account)
    /\ last' = Returned(c, None, c.account \in DOMAIN limits, 0)
    /\ run' = Swept({c.account})
    /\ UNCHANGED failure_counts

\* a clear_all that forgets the failure counts too
clear_all_with_counts(c) ==
    /\ c.op = "clear_all"
    /\ Step
    /\ limits' = EmptyMap
    /\ failure_counts' = EmptyMap
    /\ last' = Returned(c, None, FALSE, 0)
    /\ run' = Swept(Accounts)

clear_all(c) ==
    /\ c.op = "clear_all"
    /\ Step
    /\ limits' = EmptyMap
    /\ last' = Returned(c, None, FALSE, 0)
    /\ run' = Swept(Accounts)
    /\ UNCHANGED failure_counts

\* time passes
Tick ==
    \E d \in ClockSteps :
        /\ now + d <= MaxClock
        /\ (now + d) % FromSecs(FAILURE_COUNT_EXPIRY_SECONDS) <= MaxDrift
        /\ now' = now + d
        /\ UNCHANGED <<limits, failure_counts, workload, steps, run, last, threads, parse>>

Next ==
    \/ \E c \in CallsOf[workload] : parse_from_error(c)
    \/ \E c \in CallsOf[workload] : mark_success(c)
    \/ \E c \in CallsOf[workload] : set_lockout_until(c)
    \/ \E c \in CallsOf[workload] : set_lockout_until_iso(c)
    \/ \E c \in CallsOf[workload] : cleanup_expired(c)
    \/ \E c \in CallsOf[workload] : clear(c)
    \/ \E c \in CallsOf[workload] : clear_all(c)
    \/ Tick

Spec == Init /\ [][Next]_vars

----------------------------------------------------------------------------
(* Lockouts left to themselves: reports and set lockouts are made, nothing   *)
(* is ever removed, and time passes.                                         *)

LiveWorkloads == {"ladder", "until", "iso"}

LiveInit ==
    /\ limits = EmptyMap
    /\ failure_counts = EmptyMap
    /\ now = 0
    /\ workload \in LiveWorkloads
    /\ steps = 0
    /\ run = NoRuns
    /\ last = NoLast
    /\ threads = NoThreads
    /\ parse = NoParse

\* the instants the clock is looked at next: the next tick while the clock is
\* within MaxDrift ticks of its origin, and for every record that has not
\* expired, one second before its reset_time, one tick before it, and the
\* reset_time itself
PassTargets ==
    {t \in {now + 1} : t <= MaxDrift}
    \cup {t \in UNION {{limits[k].reset_time - TicksPerSec, limits[k].reset_time - 1,
                         limits[k].reset_time} : k \in DOMAIN limits} : t > now}

\* SystemTime::now() gives a later instant than at the call before
Pass ==
    /\ \E t \in PassTargets : now' = t
    /\ UNCHANGED <<limits, failure_counts, workload, steps, run, last, threads, parse>>

LiveNext ==
    \/ \E c \in CallsOf[workload] : parse_from_error(c)
    \/ \E c \in CallsOf[workload] : set_lockout_until(c)
    \/ \E c \in CallsOf[workload] : set_lockout_until_iso(c)
    \/ Pass

\* the clock keeps advancing
LiveSpec == LiveInit /\ [][LiveNext]_vars /\ WF_vars(Pass)

----------------------------------------------------------------------------
(* Concurrent callers.  Each thread makes one call on account "a"; a step is *)
(* one access to a map.  DashMap::entry holds the write lock of the entry's  *)
(* shard until its guard is dropped, and DashMap::remove takes that lock.    *)

Threads == 1..MaxThreads
ThreadCalls ==
    ParseCalls({"a"}, {Quota429}, {None}, {Ladder})
    \cup ParseCalls({"a"}, {Rate429}, {Some("m")}, {Ladder})
    \cup AccountCalls("mark_success", {"a"})

ThreadInit ==
    /\ limits = EmptyMap
    /\ now = 0
    /\ workload = "threads"
    /\ steps = 0
    /\ run = NoRuns
    /\ last = NoLast
    /\ parse = NoParse
    /\ \E c \in 0..(MaxSteps - 1), calls \in [Threads -> ThreadCalls] :
           /\ failure_counts = IF c = 0 THEN EmptyMap ELSE [x \in {"a"} |-> <<c, 0>>]
           /\ threads = [NoThreads EXCEPT !.pc = [t \in Threads |-> "start"],
                                          !.call = calls,
                                          !.now = [t \in Threads |-> 0],
                                          !.count = [t \in Threads |-> 0],
                                          !.info = [t \in Threads |-> None],
                                          !.c0 = c]

\* the thread's call, and the frame of a thread's step
CallOf(t) == threads.call[t]
At(t, pc) == threads.pc[t] = pc
Goto(th, t, pc) == [th EXCEPT !.pc[t] = pc]
ThreadFrame == UNCHANGED <<workload, steps, run, last, parse>>

\* a lock that is never held
AvailableAlways(key) == TRUE

\* the lock of the failure-count entry of key is free
Available(key) == threads.lock[key] = 0

\* lines 191-232: the status check, the reason, the hints, and now
Begin(t) ==
    LET c == CallOf(t)
        counted == /\ AcceptedStatus(c.status)
                   /\ RetryAfterOf(c.header, c.body) = None
                   /\ ReasonOf(c.status, c.body) # "ServerError"
    IN  /\ At(t, "start")
        /\ threads' =
               [Goto(threads, t,
                     CASE c.op = "mark_success" -> "remove_count"
                       [] ~AcceptedStatus(c.status) -> "done"
                       [] counted -> "entry"
                       [] OTHER -> "insert")
                EXCEPT !.now[t] = now]
        /\ UNCHANGED <<limits, failure_counts, now>>
        /\ ThreadFrame

\* line 237: failure_counts.entry(account_id).or_insert((0, now))
Entry(t) ==
    LET a == CallOf(t).account
    IN  /\ At(t, "entry")
        /\ Available(a)
        /\ failure_counts' = IF a \in DOMAIN failure_counts THEN failure_counts
                             ELSE Insert(failure_counts, a, <<0, threads.now[t]>>)
        /\ threads' = [Goto(threads, t, "expiry") EXCEPT !.lock[a] = t]
        /\ UNCHANGED <<limits, now>>
        /\ ThreadFrame

\* lines 239-243: an expired count starts over
Expiry(t) ==
    LET a == CallOf(t).account
        elapsed == AsSecs(UnwrapOr(DurationSince(threads.now[t], failure_counts[a][2]), 0))
    IN  /\ At(t, "expiry")
        /\ a \in DOMAIN failure_counts   \* the guard refers to the entry
        /\ failure_counts' = IF elapsed > FAILURE_COUNT_EXPIRY_SECONDS
                             THEN [failure_counts EXCEPT ![a] = <<0, threads.now[t]>>]
                             ELSE failure_counts
        /\ threads' = Goto(threads, t, "incr")
        /\ UNCHANGED <<limits, now>>
        /\ ThreadFrame

\* line 244: entry.0 += 1
Incr(t) ==
    LET a == CallOf(t).account
    IN  /\ At(t, "incr")
        /\ a \in DOMAIN failure_counts   \* the guard refers to the entry
        /\ failure_counts' = [failure_counts EXCEPT ![a][1] = @ + 1]
        /\ threads' = Goto(threads, t, "stamp")
        /\ UNCHANGED <<limits, now>>
        /\ ThreadFrame

\* line 245: entry.1 = now
Stamp(t) ==
    LET a == CallOf(t).account
    IN  /\ At(t, "stamp")
        /\ a \in DOMAIN failure_counts   \* the guard refers to the entry
        /\ failure_counts' = [failure_counts EXCEPT ![a][2] = threads.now[t]]
        /\ threads' = Goto(threads, t, "read")
        /\ UNCHANGED <<limits, now>>
        /\ ThreadFrame

\* lines 246-247: the count is read back and the entry's guard is dropped
ReadBack(t) ==
    LET a == CallOf(t).account
    IN  /\ At(t, "read")
        /\ a \in DOMAIN failure_counts   \* the guard refers to the entry
        /\ threads' = [Goto(threads, t, "insert")
                       EXCEPT !.count[t] = failure_counts[a][1], !.lock[a] = 0]
        /\ UNCHANGED <<limits, failure_counts, now>>
        /\ ThreadFrame

\* lines 222-225, 252-317: the lockout, the record, limits.insert
InsertInfo(t) ==
    LET c == CallOf(t)
        reason == ReasonOf(c.status, c.body)
        retry_after_sec == RetryAfterOf(c.header, c.body)
        failure_count == IF reason # "ServerError" THEN threads.count[t] ELSE 1
        retry_sec == RetrySec(retry_after_sec, reason, c.status, failure_count, c.schedule)
        info == RateLimitInfo(now + FromSecs(retry_sec), retry_sec, now, reason, c.model)
    IN  /\ At(t, "insert")
        /\ limits' = Insert(limits, StorageKey(c.account, reason, c.model), info)
        /\ threads' = [Goto(threads, t, "done") EXCEPT !.info[t] = Some(info)]
        /\ UNCHANGED <<failure_counts, now>>
        /\ ThreadFrame

\* a success that sets the count to 0 and keeps the entry
RemoveCountToZero(t) ==
    LET a == CallOf(t).account
    IN  /\ At(t, "remove_count")
        /\ Available(a)
        /\ failure_counts' = Insert(failure_counts, a, <<0, threads.now[t]>>)
        /\ threads' = Goto(threads, t, "remove_limit")
        /\ UNCHANGED <<limits, now>>
        /\ ThreadFrame

\* line 99: failure_counts.remove(account_id)
RemoveCount(t) ==
    LET a == CallOf(t).account
    IN  /\ At(t, "remove_count")
        /\ Available(a)
        /\ failure_counts' = Remove(failure_counts, a)
        /\ threads' = Goto(threads, t, "remove_limit")
        /\ UNCHANGED <<limits, now>>
        /\ ThreadFrame

\* line 103: limits.remove(account_id)
RemoveLimit(t) ==
    /\ At(t, "remove_limit")
    /\ limits' = Remove(limits, CallOf(t).account)
    /\ threads' = Goto(threads, t, "done")
    /\ UNCHANGED <<failure_counts, now>>
    /\ ThreadFrame

\* time passes while the threads run
ThreadTick ==
    /\ now < MaxDrift
    /\ now' = now + 1
    /\ UNCHANGED <<limits, failure_counts, threads>>
    /\ ThreadFrame

ThreadNext ==
    \/ \E t \in Threads : Begin(t)
    \/ \E t \in Threads : Entry(t)
    \/ \E t \in Threads : Expiry(t)
    \/ \E t \in Threads : Incr(t)
    \/ \E t \in Threads : Stamp(t)
    \/ \E t \in Threads : ReadBack(t)
    \/ \E t \in Threads : InsertInfo(t)
    \/ \E t \in Threads : RemoveCount(t)
    \/ \E t \in Threads : RemoveLimit(t)
    \/ ThreadTick

ThreadSpec == ThreadInit /\ [][ThreadNext]_vars

----------------------------------------------------------------------------
(* The parsers on their own: a text is handed to one of them.                *)

\* plain-text bodies: two phrases in a sentence
Phrases ==
    {"", "per minute", "Per Minute", "Rate Limit", "TOO MANY REQUESTS", "exhausted",
     "Quota", "try later"}
TextInput(p, q) ==
    [kind |-> "text", parts |-> <<p, q>>,
     body |-> [raw |-> "Error: " \o p \o "; " \o q \o ".", json |-> None]]

\* JSON bodies: error.details[0].reason and error.message, "-" for a missing one
ReasonStrings ==
    {"-", "QUOTA_EXHAUSTED", "RATE_LIMIT_EXCEEDED", "MODEL_CAPACITY_EXHAUSTED",
     "SOMETHING_ELSE", "quota_exhausted"}
Messages == {"-", "Rate limit hit", "Tokens Per Minute", "Quota exhausted", "try later"}
JsonText(r, m) ==
    "{\"error\":{"
    \o (IF m = "-" THEN "" ELSE "\"message\":\"" \o m \o "\"")
    \o (IF m # "-" /\ r # "-" THEN "," ELSE "")
    \o (IF r = "-" THEN "" ELSE "\"details\":[{\"reason\":\"" \o r \o "\"}]")
    \o "}}"
JsonValue(r, m) ==
    JObj([error |-> JObj([k \in (IF m = "-" THEN {} ELSE {"message"})
                                \cup (IF r = "-" THEN {} ELSE {"details"})
                          |-> IF k = "message" THEN JStr(m)
                              ELSE JArr(<<JObj([reason |-> JStr(r)])>>)])])
JsonInput(r, m) ==
    [kind |-> "json", parts |-> <<r, m>>,
     body |-> [raw |-> JsonText(r, m), json |-> Some(JsonValue(r, m))]]

\* quotaResetDelay strings: hours, minutes, seconds, milliseconds, each optional
HourParts == {"", "1h", "2h"}
MinuteParts == {"", "1m", "30m"}
SecondParts == {"", "0s", "1s", "42s", "0.5s", "2.5s"}
MilliParts == {"", "0ms", "500ms", "510.79ms", "1500.0ms"}
DurationInput(h, m, sec, ms) ==
    [kind |-> "duration", parts |-> <<h, m, sec, ms>>, s |-> h \o m \o sec \o ms]

ParserInputs ==
    {TextInput(p, q) : p \in Phrases, q \in Phrases}
    \cup {JsonInput(r, m) : r \in ReasonStrings, m \in Messages}
    \cup {DurationInput(h, m, sec, ms) :
              h \in HourParts, m \in MinuteParts, sec \in SecondParts, ms \in MilliParts}

ParserInit ==
    /\ limits = EmptyMap
    /\ failure_counts = EmptyMap
    /\ now = 0
    /\ workload = "parsers"
    /\ steps = 0
    /\ run = NoRuns
    /\ last = NoLast
    /\ threads = NoThreads
    /\ \E i \in ParserInputs : parse = [NoParse EXCEPT !.input = i]

ParserFrame == UNCHANGED <<limits, failure_counts, now, workload, steps, run, last, threads>>

Classify ==
    /\ parse.fn = ""
    /\ parse.input.kind \in {"text", "json"}
    /\ parse' = [parse EXCEPT !.fn = "parse_rate_limit_reason",
                              !.out = Some(parse_rate_limit_reason(parse.input.body))]
    /\ ParserFrame

RetryTime ==
    /\ parse.fn = ""
    /\ parse.input.kind \in {"text", "json"}
    /\ parse' = [parse EXCEPT !.fn = "parse_retry_time_from_body",
                              !.out = parse_retry_time_from_body(parse.input.body)]
    /\ ParserFrame

Duration ==
    /\ parse.fn = ""
    /\ parse.input.kind = "duration"
    /\ parse' = [parse EXCEPT !.fn = "parse_duration_string",
                              !.out = parse_duration_string(parse.input.s)]
    /\ ParserFrame

ParserNext == Classify \/ RetryTime \/ Duration

ParserSpec == ParserInit /\ [][ParserNext]_vars

----------------------------------------------------------------------------
(* Properties *)

Lc == last.call
\* the composite key "account:model"
ModelKey(a, m) == a \o ":" \o m
ModelNames == {"m", "n"}
HandledStatuses == {429, 500, 503, 529, 404}
Max(x, y) == IF x >= y THEN x ELSE y
Min(x, y) == IF x <= y THEN x ELSE y
WholeSecs(d) == d \div TicksPerSec
\* the record under key k has not expired at instant t
Active(lm, k, t) == k \in DOMAIN lm /\ lm[k].reset_time > t
\* the whole seconds the record under key k still has at instant t
SecsLeft(lm, k, t) == WholeSecs(lm[k].reset_time - t)
\* what the last parse_from_error returned
LastRetry == last.info[1].retry_after_sec
\* the ladder step a run of length n gets
LadderStep(schedule, n) == schedule[Min(n, Len(schedule))]

\* C1: get_remaining_wait(a, m) is the whole seconds left of a's account-scoped
\* record when that record has not expired, whatever model-scoped record exists;
\* otherwise the whole seconds left of the record under "a:m" when a model is
\* given and that record has not expired; otherwise 0.  is_rate_limited(a, m)
\* holds exactly when that value is positive.
ExpectedWait(a, mo) ==
    IF Active(limits, a, now) THEN SecsLeft(limits, a, now)
    ELSE IF mo # None /\ Active(limits, ModelKey(a, mo[1]), now)
    THEN SecsLeft(limits, ModelKey(a, mo[1]), now)
    ELSE 0
C1_RemainingWait ==
    \A a \in Accounts, mo \in QueryModels :
        /\ get_remaining_wait(a, mo) = ExpectedWait(a, mo)
        /\ is_rate_limited(a, mo) <=> ExpectedWait(a, mo) > 0
\* an account-scoped record hides a model-scoped record that expires later
C1_Witness ==
    \E a \in Accounts, m \in ModelNames :
        /\ Active(limits, a, now)
        /\ Active(limits, ModelKey(a, m), now)
        /\ SecsLeft(limits, a, now) > 0
        /\ SecsLeft(limits, ModelKey(a, m), now) > SecsLeft(limits, a, now)
        /\ get_remaining_wait(a, Some(m)) = SecsLeft(limits, a, now)

\* C2: in a run of hint-less QuotaExhausted reports on an account that had no
\* failure count when the run began, with no mark_success, no other report and
\* no gap over 3600 s in between, the k-th report, made with no model and a
\* non-empty ladder, returns the ladder's step min(k, length), counted from 1.
C2_LadderWalk ==
    (/\ QuotaCall(Lc)
     /\ Lc.model = None
     /\ Lc.schedule # << >>
     /\ run[Lc.account].n > 0
     /\ ~run[Lc.account].stormy)
    => /\ last.info # None
       /\ LastRetry = LadderStep(Lc.schedule, run[Lc.account].n)
\* the third report of a run on a two-step ladder stays on the last step
C2_Witness ==
    /\ QuotaCall(Lc)
    /\ Lc.model = None
    /\ Lc.schedule = Ladder
    /\ run[Lc.account].n = 3
    /\ ~run[Lc.account].stormy
    /\ LastRetry = 300

\* C3: a report with status 500, 503, 529 or 404 leaves the failure-count map as
\* it was; with status 500, 503 or 529 and no wait named it returns 8 seconds;
\* and a run of hint-less QuotaExhausted reports with such reports in between
\* gets the ladder steps it would get without them.
C3_ServerErrorsLeaveCounts ==
    /\ (IsParse(Lc) /\ ServerStatus(Lc)) => failure_counts = last.failure_counts
    /\ (/\ IsParse(Lc)
        /\ Lc.status \in {500, 503, 529}
        /\ SaidWait(Lc.header, Lc.body) = None)
       => (last.info # None /\ LastRetry = 8)
    /\ (/\ QuotaCall(Lc)
        /\ Lc.schedule # << >>
        /\ run[Lc.account].n > 0
        /\ run[Lc.account].stormy)
       => (last.info # None /\ LastRetry = LadderStep(Lc.schedule, run[Lc.account].n))
\* the second quota report of a run, with a backend failure in between, gets the
\* second step
C3_Witness ==
    /\ QuotaCall(Lc)
    /\ Lc.schedule = Ladder
    /\ run[Lc.account].n = 2
    /\ run[Lc.account].stormy
    /\ LastRetry = 300

\* C4: once mark_success(a) has returned, a has neither a failure count nor an
\* account-scoped record, and the report that comes next on a, when it is a
\* hint-less QuotaExhausted one with a non-empty ladder, returns the first step.
C4_SuccessResets ==
    /\ Lc.op = "mark_success"
       => (Lc.account \notin DOMAIN failure_counts /\ Lc.account \notin DOMAIN limits)
    /\ (QuotaCall(Lc) /\ Lc.schedule # << >> /\ run[Lc.account].since = "success")
       => (last.info # None /\ LastRetry = Lc.schedule[1])
\* mark_success took away a failure count of two and an account-scoped record
C4_Witness ==
    /\ Lc.op = "mark_success"
    /\ Lc.account \in DOMAIN last.failure_counts
    /\ last.failure_counts[Lc.account][1] >= 2
    /\ Lc.account \in DOMAIN last.limits
    /\ Lc.account \notin DOMAIN failure_counts

\* C5: mark_success(a) and clear(a) add no record, leave every record but the one
\* under the bare key a as it was, and leave the failure counts of other accounts
\* as they were; a model-scoped record of a that gave a positive wait before the
\* call still makes is_rate_limited(a, Some(m)) true right after it; and clear(a)
\* returns true exactly when a record under the bare key a existed.
C5_OtherRecordsKept ==
    Lc.op \in {"mark_success", "clear"}
    => /\ DOMAIN limits \subseteq DOMAIN last.limits
       /\ \A k \in DOMAIN last.limits \ {Lc.account} :
              k \in DOMAIN limits /\ limits[k] = last.limits[k]
       /\ \A b \in DOMAIN last.failure_counts \ {Lc.account} :
              b \in DOMAIN failure_counts /\ failure_counts[b] = last.failure_counts[b]
       /\ last.at = now
          => \A m \in ModelNames :
                 (/\ Active(last.limits, ModelKey(Lc.account, m), now)
                  /\ SecsLeft(last.limits, ModelKey(Lc.account, m), now) > 0)
                 => is_rate_limited(Lc.account, Some(m))
       /\ Lc.op = "clear" => (last.flag <=> Lc.account \in DOMAIN last.limits)
\* mark_success(a) removed a's account-scoped record and kept a live model-scoped one
C5_Witness ==
    /\ Lc.op = "mark_success"
    /\ last.at = now
    /\ Lc.account \in DOMAIN last.limits
    /\ Lc.account \notin DOMAIN limits
    /\ \E m \in ModelNames :
           /\ Active(last.limits, ModelKey(Lc.account, m), now)
           /\ is_rate_limited(Lc.account, Some(m))

\* C6: a report with a handled status whose header or, failing that, body names
\* a wait of h seconds returns and stores a record with retry_after_sec
\* max(h, 2) that expires that many seconds after the call, whatever the reason
\* and the failure count, and leaves the failure-count map as it was.
C6_HintWins ==
    (/\ IsParse(Lc)
     /\ Lc.status \in HandledStatuses
     /\ SaidWait(Lc.header, Lc.body) # None)
    => /\ last.info # None
       /\ LastRetry = Max(SaidWait(Lc.header, Lc.body)[1], 2)
       /\ last.info[1].reset_time = last.at + FromSecs(LastRetry)
       /\ \E k \in {Lc.account} \cup {ModelKey(Lc.account, m) : m \in ModelNames} :
              k \in DOMAIN limits /\ limits[k] = last.info[1]
       /\ failure_counts = last.failure_counts
\* a Retry-After of 0 on an account that already has a failure count
C6_Witness ==
    /\ IsParse(Lc)
    /\ Lc.header = Some("0")
    /\ Lc.account \in DOMAIN last.failure_counts
    /\ LastRetry = 2

\* C7: parse_from_error stores its record under "a:m" exactly when the reason is
\* QuotaExhausted and a non-empty model m is given, and under the bare key a
\* otherwise, changing no other record.  Right after a QuotaExhausted report for
\* (a, m), is_rate_limited(a, None) and is_rate_limited(a, Some(m')) for m' # m
\* are what they were; right after a report of another reason with a model,
\* is_rate_limited(a, Some(m')) holds for every m'.
C7_KeyRule ==
    (IsParse(Lc) /\ last.info # None)
    => LET info == last.info[1]
           scoped == /\ info.reason = "QuotaExhausted"
                     /\ Lc.model # None
                     /\ Lc.model[1] # ""
           key == IF scoped THEN ModelKey(Lc.account, Lc.model[1]) ELSE Lc.account
       IN  /\ limits = Insert(last.limits, key, info)
           /\ (last.at = now /\ scoped)
              => \A mo \in QueryModels \ {Lc.model} :
                     is_rate_limited(Lc.account, mo)
                         <=> IsRateLimited(last.limits, now, Lc.account, mo)
           /\ (last.at = now /\ info.reason # "QuotaExhausted" /\ Lc.model # None)
              => \A mo \in QueryModels \ {None} : is_rate_limited(Lc.account, mo)
\* a RateLimitExceeded report with model m locks the account for model n too
C7_Witness ==
    /\ IsParse(Lc)
    /\ last.info # None
    /\ last.info[1].reason = "RateLimitExceeded"
    /\ Lc.model = Some("m")
    /\ last.at = now
    /\ Lc.account \notin DOMAIN last.limits
    /\ Lc.account \in DOMAIN limits
    /\ is_rate_limited(Lc.account, Some("n"))

\* C8: set_lockout_until(a, t, reason, model) stores its record, with the reason
\* and the model it was given, under "a:m" whenever model is Some(m) with m
\* non-empty, whatever the reason, and under the bare key a otherwise, changing
\* no other record; a record parse_from_error puts under a composite key has
\* reason QuotaExhausted.
C8_UntilKeyFollowsModel ==
    /\ Lc.op = "set_lockout_until"
       => LET key == IF Lc.model # None /\ Lc.model[1] # ""
                     THEN ModelKey(Lc.account, Lc.model[1]) ELSE Lc.account
          IN  /\ DOMAIN limits = DOMAIN last.limits \cup {key}
              /\ limits[key].reason = Lc.reason
              /\ limits[key].model = Lc.model
              /\ limits[key].reset_time = Lc.reset_time
              /\ \A k \in DOMAIN last.limits \ {key} : limits[k] = last.limits[k]
    /\ IsParse(Lc)
       => \A k \in DOMAIN limits \ Accounts :
              (k \notin DOMAIN last.limits \/ limits[k] # last.limits[k])
              => limits[k].reason = "QuotaExhausted"
\* set_lockout_until put a RateLimitExceeded record under a composite key
C8_Witness ==
    /\ Lc.op = "set_lockout_until"
    /\ Lc.reason = "RateLimitExceeded"
    /\ Lc.model = Some("m")
    /\ ModelKey(Lc.account, "m") \in DOMAIN limits
    /\ limits[ModelKey(Lc.account, "m")].reason = "RateLimitExceeded"
    /\ Lc.account \notin DOMAIN limits
\* C8 as stated: set_lockout_until uses the composite key only for QuotaExhausted
\* with a model, and every record under a composite key has reason QuotaExhausted
C8_AsStated ==
    /\ Lc.op = "set_lockout_until"
       => LET key == IF Lc.reason = "QuotaExhausted" /\ Lc.model # None /\ Lc.model[1] # ""
                     THEN ModelKey(Lc.account, Lc.model[1]) ELSE Lc.account
          IN  key \in DOMAIN limits /\ limits[key].reset_time = Lc.reset_time
    /\ \A k \in DOMAIN limits \ Accounts : limits[k].reason = "QuotaExhausted"

\* C9: a report with a status other than 429, 500, 503, 529 and 404 returns None
\* and leaves the lockout map and the failure-count map as they were, whatever
\* its header and body say.
C9_OtherStatusIgnored ==
    (IsParse(Lc) /\ Lc.status \notin HandledStatuses)
    => /\ last.info = None
       /\ limits = last.limits
       /\ failure_counts = last.failure_counts
\* a 502 with a Retry-After header, on a tracker that holds a record and a count
C9_Witness ==
    /\ IsParse(Lc)
    /\ Lc.status = 502
    /\ Lc.header = Some("7")
    /\ last.info = None
    /\ DOMAIN limits # {}
    /\ DOMAIN failure_counts # {}

\* the records cleanup_expired took away
Removed == DOMAIN last.limits \ DOMAIN limits
\* cleanup_expired removed exactly the expired records and counted them
CleanupExact ==
    /\ DOMAIN limits = {k \in DOMAIN last.limits : last.limits[k].reset_time > last.at}
    /\ \A k \in DOMAIN limits : limits[k] = last.limits[k]
    /\ last.count = Cardinality(Removed)

\* C10: cleanup_expired removes exactly the records, account-scoped and
\* model-scoped, with reset_time <= now, keeps the others as they were and
\* returns the number removed; right afterwards get_remaining_wait(a, None) is 0
\* for a removed bare key a, and get_remaining_wait(a, Some(m)) for a removed key
\* "a:m" is 0 unless a's account-scoped record is still live, in which case it is
\* that record's remaining wait.
C10_CleanupRemovesExpired ==
    Lc.op = "cleanup_expired"
    => /\ CleanupExact
       /\ last.at = now
          => \A a \in Accounts :
                 /\ a \in Removed => get_remaining_wait(a, None) = 0
                 /\ \A m \in ModelNames :
                        ModelKey(a, m) \in Removed
                        => get_remaining_wait(a, Some(m))
                               = IF Active(limits, a, now)
                                 THEN SecsLeft(limits, a, now) ELSE 0
\* cleanup removed an expired model-scoped record of an account whose
\* account-scoped record is live, and the query for that model is not 0
C10_Witness ==
    /\ Lc.op = "cleanup_expired"
    /\ last.at = now
    /\ last.count >= 1
    /\ \E a \in Accounts, m \in ModelNames :
           /\ ModelKey(a, m) \in Removed
           /\ Active(limits, a, now)
           /\ get_remaining_wait(a, Some(m)) > 0
\* C10 as stated: right after the cleanup the wait is 0 for every removed key
C10_AsStated ==
    Lc.op = "cleanup_expired"
    => /\ CleanupExact
       /\ last.at = now
          => \A a \in Accounts :
                 /\ a \in Removed => get_remaining_wait(a, None) = 0
                 /\ \A m \in ModelNames :
                        ModelKey(a, m) \in Removed => get_remaining_wait(a, Some(m)) = 0

\* C11: clear, clear_all, cleanup_expired, set_lockout_until and
\* set_lockout_until_iso leave the failure-count map as it was, and a run of
\* hint-less QuotaExhausted reports on an account goes on up the ladder when one
\* of them was called on the account in between.
LockoutOps ==
    {"clear", "clear_all", "cleanup_expired", "set_lockout_until", "set_lockout_until_iso"}
C11_LockoutOpsKeepCounts ==
    /\ Lc.op \in LockoutOps => failure_counts = last.failure_counts
    /\ (/\ QuotaCall(Lc)
        /\ Lc.schedule # << >>
        /\ run[Lc.account].n > 1
        /\ run[Lc.account].swept)
       => (last.info # None /\ LastRetry = LadderStep(Lc.schedule, run[Lc.account].n))
\* the second quota report of a run, made after the account's lockout was taken
\* away, gets the second step
C11_Witness ==
    /\ QuotaCall(Lc)
    /\ Lc.schedule = Ladder
    /\ run[Lc.account].n = 2
    /\ run[Lc.account].swept
    /\ Lc.account \notin DOMAIN last.limits
    /\ LastRetry = 300

\* C12 as stated: every record in the lockout map, whichever operation put it
\* there, has detected_at <= reset_time (a record is never changed once stored,
\* so this is its state at insertion).
C12_AsStated ==
    \A k \in DOMAIN limits : limits[k].detected_at <= limits[k].reset_time

\* the threads that have read their failure count back
Readers == {t \in Threads : threads.pc[t] \in {"insert", "done"}}
\* every thread reports a hint-less error that is no ServerError
AllReports == \A t \in Threads : IsParse(CallOf(t))

\* C13: when every thread makes a hint-less non-ServerError report on the same
\* account, in any interleaving, the counts the threads have read back so far
\* are distinct and are c+1 .. c+k for the k threads that have read, c being the
\* count before; once all N have read, the stored count is c+N.
C13_IncrementAtomic ==
    (workload = "threads" /\ AllReports)
    => /\ {threads.count[t] : t \in Readers}
              = (threads.c0 + 1)..(threads.c0 + Cardinality(Readers))
       /\ Readers = Threads => failure_counts["a"][1] = threads.c0 + MaxThreads
\* all threads have reported on an account whose count was 1, and the thread
\* with the higher number got the lock first
C13_Witness ==
    /\ workload = "threads"
    /\ AllReports
    /\ \A t \in Threads : threads.pc[t] = "done"
    /\ threads.c0 = 1
    /\ threads.count[MaxThreads] = 2
    /\ failure_counts["a"][1] = 1 + MaxThreads

\* the key a report's record went under
KeyOfLast ==
    IF /\ last.info[1].reason = "QuotaExhausted"
       /\ Lc.model # None
       /\ Lc.model[1] # ""
    THEN ModelKey(Lc.account, Lc.model[1]) ELSE Lc.account

\* C14: after a report has returned Some(info), and until the next operation,
\* the lockout map holds info under the report's key, whatever record was there
\* before; while info has not expired, get_remaining_wait for the account is the
\* whole seconds left of info for every model when the key is the bare one, and
\* for the model of a model-scoped record when no account-scoped record is live.
C14_ReportVisible ==
    (IsParse(Lc) /\ last.info # None)
    => LET info == last.info[1]
           left == WholeSecs(info.reset_time - now)
       IN  /\ KeyOfLast \in DOMAIN limits
           /\ limits[KeyOfLast] = info
           /\ (KeyOfLast = Lc.account /\ info.reset_time > now)
              => \A mo \in QueryModels : get_remaining_wait(Lc.account, mo) = left
           /\ (/\ KeyOfLast # Lc.account
               /\ info.reset_time > now
               /\ ~Active(limits, Lc.account, now))
              => get_remaining_wait(Lc.account, Lc.model) = left
\* a 7-second record replaced one that expired later, and half a second on the
\* query gives 6
C14_Witness ==
    /\ IsParse(Lc)
    /\ last.info # None
    /\ KeyOfLast \in DOMAIN last.limits
    /\ last.limits[KeyOfLast].reset_time > last.info[1].reset_time
    /\ LastRetry = 7
    /\ now > last.at
    /\ get_remaining_wait(Lc.account, None) = 6

\* the reason a report is about, as its status and body say
SaidReasonOf(c) == IF c.status = 429 THEN SaidReason(c.body) ELSE "ServerError"
\* the policy table, for a failure count n
TableLockout(c, n) ==
    CASE SaidReasonOf(c) = "RateLimitExceeded" -> 5
      [] SaidReasonOf(c) = "ModelCapacityExhausted" ->
            (IF n = 1 THEN 5 ELSE IF n = 2 THEN 10 ELSE 15)
      [] SaidReasonOf(c) = "ServerError" -> (IF c.status = 404 THEN 5 ELSE 8)
      [] SaidReasonOf(c) = "Unknown" -> 60
      [] SaidReasonOf(c) = "QuotaExhausted" -> 7200

\* C15: a report with a handled status and no wait named returns the lockout of
\* the policy table for its reason, its status and the failure count the account
\* has after the report: 5 for RateLimitExceeded; 5, 10, 15 for
\* ModelCapacityExhausted at count 1, 2, 3 and more; 5 for a 404 and 8 for a
\* 500/503/529; 60 for Unknown; 7200 for QuotaExhausted with an empty ladder.
C15_PolicyTable ==
    (/\ IsParse(Lc)
     /\ Lc.status \in HandledStatuses
     /\ SaidWait(Lc.header, Lc.body) = None
     /\ (SaidReasonOf(Lc) = "QuotaExhausted" => Lc.schedule = << >>))
    => /\ last.info # None
       /\ last.info[1].reason = SaidReasonOf(Lc)
       /\ SaidReasonOf(Lc) # "ServerError" => Lc.account \in DOMAIN failure_counts
       /\ LastRetry = TableLockout(Lc, IF SaidReasonOf(Lc) = "ServerError" THEN 1
                                       ELSE failure_counts[Lc.account][1])
\* a third ModelCapacityExhausted report gets 15
C15_Witness ==
    /\ IsParse(Lc)
    /\ SaidReasonOf(Lc) = "ModelCapacityExhausted"
    /\ SaidWait(Lc.header, Lc.body) = None
    /\ Lc.account \in DOMAIN failure_counts
    /\ failure_counts[Lc.account][1] = 3
    /\ LastRetry = 15

\* the phrases that make a body a rate limit, and those that make it a quota
RatePhrases == {"per minute", "Per Minute", "Rate Limit", "TOO MANY REQUESTS"}
QuotaPhrases == {"exhausted", "Quota"}
\* a classification has been made of a body with no structured answer: a plain
\* text, or a JSON body with no reason and a message that settles nothing
Unstructured ==
    /\ parse.fn = "parse_rate_limit_reason"
    /\ \/ parse.input.kind = "text"
       \/ /\ parse.input.kind = "json"
          /\ parse.input.parts[1] = "-"
          /\ parse.input.parts[2] \in {"-", "Quota exhausted", "try later"}
\* the phrases such a body holds
PhrasesOf(i) ==
    IF i.kind = "text" THEN {i.parts[1], i.parts[2]}
    ELSE IF i.parts[2] = "Quota exhausted" THEN {"Quota", "exhausted"}
    ELSE {i.parts[2]}

\* C16: a body with no structured classification is RateLimitExceeded when it
\* holds "per minute", "rate limit" or "too many requests" in any letter case,
\* also when it holds "exhausted" or "quota" as well; QuotaExhausted when it
\* holds "exhausted" or "quota" and none of those three; Unknown otherwise.
C16_TextRules ==
    Unstructured
    => parse.out = Some(IF PhrasesOf(parse.input) \cap RatePhrases # {}
                        THEN "RateLimitExceeded"
                        ELSE IF PhrasesOf(parse.input) \cap QuotaPhrases # {}
                        THEN "QuotaExhausted"
                        ELSE "Unknown")
\* a text with "Quota" and then "Per Minute" is a rate limit
C16_Witness ==
    /\ Unstructured
    /\ parse.input.kind = "text"
    /\ parse.input.parts = <<"Quota", "Per Minute">>
    /\ parse.out = Some("RateLimitExceeded")

\* the reason strings the classification knows
KnownReasons == {"QUOTA_EXHAUSTED", "RATE_LIMIT_EXCEEDED", "MODEL_CAPACITY_EXHAUSTED"}
\* a JSON body with a reason string that is none of them has been classified
OtherReason ==
    /\ parse.fn = "parse_rate_limit_reason"
    /\ parse.input.kind = "json"
    /\ parse.input.parts[1] \notin KnownReasons \cup {"-"}
\* the message of such a body speaks of a rate limit
RateMessage == parse.input.parts[2] \in {"Rate limit hit", "Tokens Per Minute"}

\* C17 as stated: a JSON body whose error.details[0].reason is a string other
\* than the three known ones is RateLimitExceeded when its error.message holds
\* "per minute" or "rate limit".
C17_AsStated ==
    (OtherReason /\ RateMessage) => parse.out = Some("RateLimitExceeded")

\* C17: a JSON body whose error.details[0].reason is a string other than the
\* three known ones is Unknown, whatever its error.message says; the message
\* decides only when there is no reason string.
C17_OtherReasonIsUnknown ==
    /\ OtherReason => parse.out = Some("Unknown")
    /\ ( /\ parse.fn = "parse_rate_limit_reason"
         /\ parse.input.kind = "json"
         /\ parse.input.parts[1] = "-"
         /\ RateMessage ) => parse.out = Some("RateLimitExceeded")
\* a body with reason SOMETHING_ELSE and message "Rate limit hit" is Unknown
C17_Witness ==
    /\ OtherReason
    /\ parse.input.parts = <<"SOMETHING_ELSE", "Rate limit hit">>
    /\ parse.out = Some("Unknown")

\* a hint-less report of a reason other than ServerError, on an account that had
\* a failure count
CountedAgain ==
    /\ IsParse(Lc)
    /\ Lc.status = 429
    /\ SaidWait(Lc.header, Lc.body) = None
    /\ Lc.account \in DOMAIN last.failure_counts
\* the time between that count's last update and the report
SinceLastFailure == last.at - last.failure_counts[Lc.account][2]

\* C18 as stated: such a report reads back 1 exactly when it comes more than
\* 3600 s after the count's last update, and one more than the stored count
\* otherwise; the count's last update is then the time of the report.
C18_AsStated ==
    CountedAgain
    => failure_counts[Lc.account]
           = << IF SinceLastFailure > FromSecs(FAILURE_COUNT_EXPIRY_SECONDS)
                THEN 1
                ELSE last.failure_counts[Lc.account][1] + 1,
                last.at >>

\* a hint-less report of a reason other than ServerError
Counted ==
    /\ IsParse(Lc)
    /\ Lc.status = 429
    /\ SaidWait(Lc.header, Lc.body) = None
\* the account's count has not run out: the account had no count, or the count
\* was last updated no more than 3600 s before the report
InOneRun ==
    CountedAgain => SinceLastFailure <= FromSecs(FAILURE_COUNT_EXPIRY_SECONDS)
\* the earlier errors the account's count stood for
EarlierErrors ==
    IF CountedAgain THEN last.failure_counts[Lc.account][1] ELSE 0

\* C19: failure counts are kept under bare account ids and never under a key
\* with a model in it; a hint-less report of RateLimitExceeded,
\* ModelCapacityExhausted, Unknown or QuotaExhausted, for any model or none,
\* adds one to the count of its account and leaves the other counts alone; and
\* a hint-less QuotaExhausted report that comes after k such errors of the
\* account, within 3600 s of the last of them, gets step min(k, length - 1) of a
\* non-empty ladder, counted from 0.
C19_SharedCounter ==
    /\ DOMAIN failure_counts \subseteq Accounts
    /\ (Counted /\ InOneRun)
       => /\ failure_counts
               = Insert(last.failure_counts, Lc.account, <<EarlierErrors + 1, last.at>>)
          /\ (SaidReason(Lc.body) = "QuotaExhausted" /\ Lc.schedule # << >>)
             => /\ last.info # None
                /\ LastRetry = Lc.schedule[Min(EarlierErrors, Len(Lc.schedule) - 1) + 1]
\* a quota error for model n, after two errors for model m of which the last was
\* not a quota error, gets the second and last step of the ladder
C19_Witness ==
    /\ Counted
    /\ SaidReason(Lc.body) = "QuotaExhausted"
    /\ Lc.model = Some("n")
    /\ EarlierErrors = 2
    /\ Lc.account \in DOMAIN last.limits
    /\ last.limits[Lc.account].reason \in {"RateLimitExceeded", "Unknown", "ModelCapacityExhausted"}
    /\ last.limits[Lc.account].model = Some("m")
    /\ LastRetry = 300

\* what the parts of a duration string say, in seconds: hours and minutes as
\* they are, seconds and milliseconds rounded up to whole seconds
HoursSaid(h) == CASE h = "" -> 0 [] h = "1h" -> 3600 [] h = "2h" -> 7200
MinutesSaid(m) == CASE m = "" -> 0 [] m = "1m" -> 60 [] m = "30m" -> 1800
SecondsSaid(sec) ==
    CASE sec \in {"", "0s"} -> 0
      [] sec \in {"1s", "0.5s"} -> 1
      [] sec = "2.5s" -> 3
      [] sec = "42s" -> 42
MillisSaid(ms) ==
    CASE ms \in {"", "0ms"} -> 0
      [] ms \in {"500ms", "510.79ms"} -> 1
      [] ms = "1500.0ms" -> 2
DurationSaid(parts) ==
    HoursSaid(parts[1]) + MinutesSaid(parts[2]) + SecondsSaid(parts[3]) + MillisSaid(parts[4])

\* C20 as stated: for a string of optional hours, minutes, seconds and
\* milliseconds in that order, parse_duration_string returns
\* H*3600 + M*60 + ceil(S) + ceil(MS/1000) seconds, and None when that is 0.
C20_AsStated ==
    parse.fn = "parse_duration_string"
    => parse.out = IF DurationSaid(parse.input.parts) = 0 THEN None
                   ELSE Some(DurationSaid(parse.input.parts))

\* the bare keys and the keys with a model in them
ModelKeys == {ModelKey(a, m) : a \in Accounts, m \in ModelNames}
\* the model a key with a model in it is for
ModelOfKey(k) == CHOOSE m \in ModelNames : \E a \in Accounts : k = ModelKey(a, m)

\* C21 as stated: every record of the lockout map under a bare account key has
\* no model, and every record under a key "account:model" has that model.
C21_AsStated ==
    \A k \in DOMAIN limits :
        /\ k \in Accounts \cup ModelKeys
        /\ k \in Accounts => limits[k].model = None
        /\ k \in ModelKeys => limits[k].model = Some(ModelOfKey(k))

\* no account is rate limited, for any model
NoneLimited == \A a \in Accounts, mo \in QueryModels : ~is_rate_limited(a, mo)
\* the records of the lockout map that have expired
ExpiredKeys == {k \in DOMAIN limits : limits[k].reset_time <= now}

\* C22: when the clock keeps advancing and reports and set lockouts stop, and
\* nothing is ever removed from the lockout map, there comes a time from which
\* is_rate_limited is false for every account and model.
C22_ExpiresOnItsOwn == <>[]NoneLimited
\* a record is still in the lockout map, its reset_time has come, and its
\* account is not rate limited
C22_Witness ==
    /\ "a" \in ExpiredKeys
    /\ limits["a"].reset_time = now
    /\ limits["a"].retry_after_sec = 300
    /\ ~is_rate_limited("a", Some("m"))

\* the threads that mark a success, and those that report a hint-less
\* QuotaExhausted error with no model
Markers == {t \in Threads : CallOf(t).op = "mark_success"}
Reporters == {t \in Threads : QuotaCall(CallOf(t)) /\ CallOf(t).model = None}
\* one mark_success and one such report on account "a", both returned
OneOfEachDone ==
    /\ workload = "threads"
    /\ Cardinality(Markers) = 1
    /\ Cardinality(Reporters) = 1
    /\ Threads = Markers \cup Reporters
    /\ \A t \in Threads : threads.pc[t] = "done"
\* what is left for account "a": the lockout of its account-scoped record and
\* its failure count
FinalLockout == IF "a" \in DOMAIN limits THEN Some(limits["a"].retry_after_sec) ELSE None
FinalCount == IF "a" \in DOMAIN failure_counts THEN Some(failure_counts["a"][1]) ELSE None

\* C23 as stated: after any interleaving of one mark_success(a) with one
\* hint-less QuotaExhausted report on a, either a has no account-scoped lockout
\* and no failure count, or it has the lockout of the first ladder step and the
\* failure count 1.
C23_AsStated ==
    OneOfEachDone
    => \/ FinalLockout = None /\ FinalCount = None
       \/ FinalLockout = Some(Ladder[1]) /\ FinalCount = Some(1)

\* C23: after any interleaving of one mark_success(a) with one hint-less
\* QuotaExhausted report on a, the failure count of a is absent or 1 and the
\* account-scoped lockout of a is absent or the record the report returned,
\* each as after one of the two serial orders, but not always the same order
\* for both; with the count 1 a lockout is that of the first ladder step, and
\* with no count it is that of the step for the count before the calls.
C23_EachMapSerial ==
    OneOfEachDone
    => /\ FinalCount \in {None, Some(1)}
       /\ \/ FinalLockout = None
          \/ \E t \in Reporters : Some(limits["a"]) = threads.info[t]
       /\ (FinalCount = Some(1) /\ FinalLockout # None) => FinalLockout = Some(Ladder[1])
       /\ (FinalCount = None /\ FinalLockout # None)
          => FinalLockout = Some(LadderStep(Ladder, threads.c0 + 1))
\* the report counted before the success removed the count, and stored its
\* record after the success removed the lockout: a lockout is left with no count
C23_Witness ==
    /\ OneOfEachDone
    /\ FinalLockout = Some(Ladder[1])
    /\ FinalCount = None

====
